---- MODULE Spec2Model ----
(***************************************************************************)
(* Protocol selection core of UCX: src/src/ucp/proto/proto_select.c.       *)
(*                                                                         *)
(* Two specifications over one set of variables:                           *)
(*   Spec       the threshold construction (ucp_proto_select_elem_init_    *)
(*              thresh) run step by step on protocol capabilities drawn    *)
(*              from bounded sets, followed by threshold searches;         *)
(*   SpecCache  the selection cache (hash, MRU cache, heap buffers) driven *)
(*              by lookup_slow / lookup_fast / cleanup.                    *)
(*                                                                         *)
(* Arithmetic.  Message lengths are size_t scaled to 0..SIZE_MAX.  The     *)
(* costs are doubles in the source; here they are exact rationals kept as  *)
(* integers: a value at (x + 0.5) is kept doubled, an intersection point   *)
(* is kept as a fraction num/den with den > 0.                             *)
(***************************************************************************)
EXTENDS Integers, Sequences, FiniteSets, TLC

(* ------------------------------ bounds --------------------------------- *)

\* SIZE_MAX of the model: message lengths are 0..MaxLen
MaxLen == 3

\* Number of lookup_slow calls of a session
MaxCalls == 2

(* ------------------------- program constants --------------------------- *)

SIZE_MAX == MaxLen

\* (double)SIZE_MAX rounds up to 2^64 = SIZE_MAX + 1
SIZE_MAX_AS_DOUBLE == SIZE_MAX + 1

\* Size of the protocol registry and of the on-stack threshold buffer
UCP_PROTO_MAX_COUNT == 2

\* All registry slots are in use
ucp_protocols_count == UCP_PROTO_MAX_COUNT

ProtoIds == 0..(ucp_protocols_count - 1)

\* (size_t)-1 and (size_t)-2: sentinels, never compared as numbers
UCS_MEMUNITS_INF == -1

UCS_MEMUNITS_AUTO == -2

UCP_PROTO_ID_INVALID == -1

\* The key of the reset MRU cache (all ones); no selection parameter has it
UINT64_MAX == -1

\* The null pointer to a heap buffer
NULL == 0

\* key.u64 of the selection parameters
Keys == {1, 2}

Lengths == 0..SIZE_MAX

(* ------------------------------ helpers -------------------------------- *)

ucs_min(a, b) == IF a < b THEN a ELSE b

(* ------------------ protocol capabilities (the inputs) ----------------- *)

\* Coefficients of the costs: fixed costs c and per-byte costs m
CoefC == 0..1

CoefM == 0..2

\* ucs_linear_func_t: the cost c + m*x
PerfSet == [c : CoefC, m : CoefM]

\* The cost a two-range protocol has in its second range, given the one of
\* its first range: the fixed and per-byte costs mirrored (cheap <-> costly)
SecondPerf(f) == [c |-> 1 - f.c, m |-> 2 - f.m]

\* ranges[] of a protocol: one or two ranges of strictly increasing
\* max_length, the first one not below min_length
RangesSet(min) ==
    { << [max_length |-> e, perf |-> f] >> : e \in min..SIZE_MAX, f \in PerfSet }
    \cup
    UNION { { << [max_length |-> ee[1], perf |-> f],
                 [max_length |-> ee[2], perf |-> SecondPerf(f)] >> : f \in PerfSet } :
            ee \in { ee \in (min..SIZE_MAX) \X (min..SIZE_MAX) : ee[1] < ee[2] } }

\* cfg_thresh: AUTO, INF or a finite length
CfgThreshSet == {UCS_MEMUNITS_AUTO, UCS_MEMUNITS_INF} \cup 0..2

MinLengthSet == 0..1

\* caps[] entry of a protocol whose init failed: never read (not in the mask)
NoCaps == [ok |-> FALSE, min_length |-> 0, ranges |-> << >>,
           cfg_thresh |-> UCS_MEMUNITS_AUTO]

\* ucp_proto_caps_t as filled in by a protocol's init
CapsSet ==
    {NoCaps} \cup
    UNION { { [ok |-> TRUE, min_length |-> mn, ranges |-> r, cfg_thresh |-> t] :
                r \in RangesSet(mn), t \in CfgThreshSet } : mn \in MinLengthSet }

\* proto_perf[] slot that select_next did not assign
NoPerf == [c |-> -1, m |-> -1]

(* --------------------------- linear functions -------------------------- *)

\* ucs_linear_func_apply(func, start + UCP_PROTO_MSGLEN_EPSILON), doubled:
\* 2*(c + m*(start + 0.5))
ucs_linear_func_apply(func, start) == 2 * func.c + func.m * (2 * start + 1)

\* ucs_linear_func_intersect(func1, func2, &x): x = (c2 - c1)/(m1 - m2) as
\* the fraction num/den with den > 0; parallel lines have no real solution
ucs_linear_func_intersect(func1, func2) ==
    LET n == func2.c - func1.c
        d == func1.m - func2.m
    IN  IF d = 0 THEN [status |-> "UCS_ERR_INVALID_PARAM", num |-> 0, den |-> 1]
        ELSE IF d < 0 THEN [status |-> "UCS_OK", num |-> -n, den |-> -d]
        ELSE [status |-> "UCS_OK", num |-> n, den |-> d]

(* --------------------------- threshold search -------------------------- *)

\* Faulty variant of the loop below, comparing with >= : it skips the entry
\* whose max_msg_length equals msg_len.  C10 does not hold of it.
RECURSIVE search_slow_loop_ge(_, _, _)
search_slow_loop_ge(thresholds, msg_len, idx) ==
    IF idx >= Len(thresholds) THEN idx
    ELSE IF msg_len >= thresholds[idx + 1].max_msg_length
         THEN search_slow_loop_ge(thresholds, msg_len, idx + 1)
         ELSE idx

\* The for loop of ucp_proto_thresholds_search_slow from index idx (0-based);
\* a result >= Len(thresholds) is a read past the last entry
RECURSIVE search_slow_loop(_, _, _)
search_slow_loop(thresholds, msg_len, idx) ==
    IF idx >= Len(thresholds) THEN idx
    ELSE IF msg_len > thresholds[idx + 1].max_msg_length
         THEN search_slow_loop(thresholds, msg_len, idx + 1)
         ELSE idx

ucp_proto_thresholds_search_slow(thresholds, msg_len) ==
    search_slow_loop(thresholds, msg_len, 0)

(* --------------------------- threshold builder ------------------------- *)

\* Faulty variant of ucp_proto_thresholds_append that never consolidates with
\* the last entry.  C3 does not hold of it.
thresholds_append_no_consolidate(thresh_list, max_len, proto_id) ==
    LET n         == Len(thresh_list)
        assert_ok == (n = 0) \/ (max_len > thresh_list[n].max_length)
    IN  IF n >= UCP_PROTO_MAX_COUNT
        THEN [status |-> "UCS_ERR_NO_MEMORY", list |-> thresh_list,
              assert_ok |-> assert_ok]
        ELSE [status |-> "UCS_OK",
              list |-> Append(thresh_list,
                              [max_length |-> max_len, proto_id |-> proto_id]),
              assert_ok |-> assert_ok]

\* ucp_proto_thresholds_append: [status, list, assert_ok]
ucp_proto_thresholds_append(thresh_list, max_len, proto_id) ==
    LET n         == Len(thresh_list)
        assert_ok == (n = 0) \/ (max_len > thresh_list[n].max_length)
    IN  IF n > 0 /\ thresh_list[n].proto_id = proto_id
        THEN [status |-> "UCS_OK",
              list |-> [thresh_list EXCEPT ![n].max_length = max_len],
              assert_ok |-> assert_ok]
        ELSE IF n >= UCP_PROTO_MAX_COUNT
        THEN [status |-> "UCS_ERR_NO_MEMORY", list |-> thresh_list,
              assert_ok |-> assert_ok]
        ELSE [status |-> "UCS_OK",
              list |-> Append(thresh_list,
                              [max_length |-> max_len, proto_id |-> proto_id]),
              assert_ok |-> assert_ok]

\* select_best, first ucs_for_each_bit loop: the best protocol at start + 0.5;
\* best.proto_id = UCP_PROTO_ID_INVALID stands for best.result = DBL_MAX
RECURSIVE select_best_find(_, _, _, _, _)
select_best_find(proto_id, proto_mask, proto_perf, start, best) ==
    IF proto_id >= ucp_protocols_count THEN best
    ELSE IF proto_id \notin proto_mask
    THEN select_best_find(proto_id + 1, proto_mask, proto_perf, start, best)
    ELSE LET curr == [proto_id |-> proto_id,
                      result   |-> ucs_linear_func_apply(proto_perf[proto_id], start)]
         IN  select_best_find(proto_id + 1, proto_mask, proto_perf, start,
                 IF best.proto_id = UCP_PROTO_ID_INVALID \/ curr.result < best.result
                 THEN curr ELSE best)

\* Faulty variant of the second loop of select_best that also takes the
\* intersections at or before start.  C2 does not hold of it.
RECURSIVE select_best_midpoint_any(_, _, _, _, _, _)
select_best_midpoint_any(proto_id, proto_mask, proto_perf, best_id, start, midpoint) ==
    IF proto_id >= ucp_protocols_count THEN midpoint
    ELSE IF proto_id \notin proto_mask
    THEN select_best_midpoint_any(proto_id + 1, proto_mask, proto_perf, best_id,
                                  start, midpoint)
    ELSE LET x == ucs_linear_func_intersect(proto_perf[proto_id], proto_perf[best_id])
         IN  select_best_midpoint_any(proto_id + 1, proto_mask, proto_perf, best_id,
                 start,
                 IF /\ x.status = "UCS_OK"
                    /\ x.num >= 0
                    /\ x.num < SIZE_MAX_AS_DOUBLE * x.den
                 THEN ucs_min(x.num \div x.den, midpoint)
                 ELSE midpoint)

\* select_best, second ucs_for_each_bit loop: the smallest intersection of the
\* best protocol with another one after start, floored, at most end
RECURSIVE select_best_midpoint(_, _, _, _, _, _)
select_best_midpoint(proto_id, proto_mask, proto_perf, best_id, start, midpoint) ==
    IF proto_id >= ucp_protocols_count THEN midpoint
    ELSE IF proto_id \notin proto_mask
    THEN select_best_midpoint(proto_id + 1, proto_mask, proto_perf, best_id,
                              start, midpoint)
    ELSE LET x == ucs_linear_func_intersect(proto_perf[proto_id], proto_perf[best_id])
         IN  select_best_midpoint(proto_id + 1, proto_mask, proto_perf, best_id, start,
                 IF /\ x.status = "UCS_OK"
                    /\ x.num > start * x.den
                    /\ x.num < SIZE_MAX_AS_DOUBLE * x.den
                 THEN ucs_min(x.num \div x.den, midpoint)
                 ELSE midpoint)

\* One iteration of the do-while loop of ucp_proto_thresholds_select_best
select_best_iter(proto_mask, proto_perf, thresh_list, start, end) ==
    LET best     == select_best_find(0, proto_mask, proto_perf, start,
                        [proto_id |-> UCP_PROTO_ID_INVALID, result |-> 0])
        mask     == proto_mask \ {best.proto_id}
        midpoint == select_best_midpoint(0, mask, proto_perf, best.proto_id,
                                         start, end)
        app      == ucp_proto_thresholds_append(thresh_list, midpoint, best.proto_id)
    IN  [status     |-> app.status,
         list       |-> app.list,
         proto_mask |-> mask,
         best       |-> best.proto_id,
         midpoint   |-> midpoint,
         start      |-> (midpoint + 1) % (SIZE_MAX + 1),
         assert_ok  |-> app.assert_ok]

\* First range of caps that contains msg_len (1-based), 0 if there is none
RECURSIVE select_next_range(_, _, _)
select_next_range(caps, msg_len, i) ==
    IF i > Len(caps.ranges) THEN 0
    ELSE IF msg_len <= caps.ranges[i].max_length THEN i
    ELSE select_next_range(caps, msg_len, i + 1)

\* Faulty variant of the user threshold configuration that does not remove a
\* protocol whose cfg_thresh is INF.  C5 does not hold of it.
select_next_cfg_thresh_keep_inf(acc, caps, proto_id, msg_len) ==
    IF caps.cfg_thresh \in {UCS_MEMUNITS_AUTO, UCS_MEMUNITS_INF} THEN acc
    ELSE IF caps.cfg_thresh <= msg_len
    THEN [acc EXCEPT !.forced_proto_mask = @ \cup {proto_id}]
    ELSE [acc EXCEPT !.max_length = ucs_min(@, caps.cfg_thresh - 1),
                     !.valid_proto_mask = @ \ {proto_id}]

\* Faulty variant of the user threshold configuration that forces a protocol
\* only above its cfg_thresh and disables it up to cfg_thresh - 1 otherwise.
\* C12 does not hold of it.
select_next_cfg_thresh_above(acc, caps, proto_id, msg_len) ==
    IF caps.cfg_thresh = UCS_MEMUNITS_AUTO THEN acc
    ELSE IF caps.cfg_thresh = UCS_MEMUNITS_INF
    THEN [acc EXCEPT !.valid_proto_mask = @ \ {proto_id}]
    ELSE IF caps.cfg_thresh < msg_len
    THEN [acc EXCEPT !.forced_proto_mask = @ \cup {proto_id}]
    ELSE [acc EXCEPT !.max_length = ucs_min(@, (caps.cfg_thresh - 1) % (SIZE_MAX + 1)),
                     !.valid_proto_mask = @ \ {proto_id}]

\* User threshold configuration of one protocol (select_next, lines 221-234)
select_next_cfg_thresh(acc, caps, proto_id, msg_len) ==
    IF caps.cfg_thresh = UCS_MEMUNITS_AUTO THEN acc
    ELSE IF caps.cfg_thresh = UCS_MEMUNITS_INF
    THEN [acc EXCEPT !.valid_proto_mask = @ \ {proto_id}]
    ELSE IF caps.cfg_thresh <= msg_len
    THEN [acc EXCEPT !.forced_proto_mask = @ \cup {proto_id}]
    ELSE [acc EXCEPT !.max_length = ucs_min(@, caps.cfg_thresh - 1),
                     !.valid_proto_mask = @ \ {proto_id}]

\* Body of the ucs_for_each_bit loop of select_next for one protocol
select_next_proto(acc, caps, proto_id, msg_len) ==
    IF msg_len < caps.min_length THEN acc
    ELSE LET i  == select_next_range(caps, msg_len, 1)
             a1 == IF i = 0 THEN acc
                   ELSE [acc EXCEPT
                           !.valid_proto_mask = @ \cup {proto_id},
                           !.proto_perf = [@ EXCEPT ![proto_id] = caps.ranges[i].perf],
                           !.max_length = ucs_min(@, caps.ranges[i].max_length)]
         IN  select_next_cfg_thresh(a1, caps, proto_id, msg_len)

RECURSIVE select_next_loop(_, _, _, _, _)
select_next_loop(proto_id, proto_mask, proto_caps, msg_len, acc) ==
    IF proto_id >= ucp_protocols_count THEN acc
    ELSE select_next_loop(proto_id + 1, proto_mask, proto_caps, msg_len,
             IF proto_id \in proto_mask
             THEN select_next_proto(acc, proto_caps[proto_id], proto_id, msg_len)
             ELSE acc)

\* Faulty variant of the narrowing below that ignores forced_proto_mask.  C4
\* does not hold of it.
select_next_narrow_not_forced(proto_mask, proto_caps, msg_len) ==
    LET acc == select_next_loop(0, proto_mask, proto_caps, msg_len,
                   [valid_proto_mask  |-> {},
                    forced_proto_mask |-> {},
                    max_length        |-> SIZE_MAX,
                    proto_perf        |-> [p \in ProtoIds |-> NoPerf]])
    IN  [status     |-> IF acc.valid_proto_mask = {} THEN "UCS_ERR_UNSUPPORTED"
                        ELSE "UCS_OK",
         proto_mask |-> acc.valid_proto_mask,
         proto_perf |-> acc.proto_perf,
         max_length |-> acc.max_length,
         assert_ok  |-> msg_len <= acc.max_length]

\* ucp_proto_thresholds_select_next up to its call of select_best: the masks,
\* the costs and the end of the sub-range that starts at msg_len
select_next_narrow(proto_mask, proto_caps, msg_len) ==
    LET acc    == select_next_loop(0, proto_mask, proto_caps, msg_len,
                      [valid_proto_mask  |-> {},
                       forced_proto_mask |-> {},
                       max_length        |-> SIZE_MAX,
                       proto_perf        |-> [p \in ProtoIds |-> NoPerf]])
        forced == acc.forced_proto_mask \cap acc.valid_proto_mask
    IN  [status     |-> IF acc.valid_proto_mask = {} THEN "UCS_ERR_UNSUPPORTED"
                        ELSE "UCS_OK",
         proto_mask |-> IF forced # {} THEN forced ELSE acc.valid_proto_mask,
         proto_perf |-> acc.proto_perf,
         max_length |-> acc.max_length,
         assert_ok  |-> msg_len <= acc.max_length]

\* The copy of the temporary list into select_elem->thresholds (lines 406-418)
init_thresh_copy(thresh_list, priv_buf) ==
    [i \in 1..Len(thresh_list) |->
        [max_msg_length |-> thresh_list[i].max_length,
         proto_config   |-> [proto    |-> thresh_list[i].proto_id,
                             priv_buf |-> priv_buf]]]

\* mask of ucp_proto_select_init_protocols: the protocols whose init succeeded
init_protocols_mask(proto_caps) == { p \in ProtoIds : proto_caps[p].ok }

(* ------------------------- capability collector ------------------------ *)

\* ucs_malloc: a buffer no earlier allocation returned
ucs_malloc(heap) ==
    [ptr  |-> heap.next,
     heap |-> [heap EXCEPT !.live = @ \cup {heap.next}, !.next = @ + 1]]

\* ucs_free: free(NULL) does nothing; freeing a buffer that is not allocated
\* is a double free
ucs_free(heap, ptr) ==
    IF ptr = NULL THEN heap
    ELSE IF ptr \in heap.live THEN [heap EXCEPT !.live = @ \ {ptr}]
    ELSE [heap EXCEPT !.double_free = TRUE]

\* ucs_realloc that succeeds: in place, or into a new buffer with the old one
\* released
ucs_realloc(heap, ptr, moved) ==
    IF moved
    THEN LET a == ucs_malloc(heap)
         IN  [ptr |-> a.ptr, heap |-> [a.heap EXCEPT !.live = @ \ {ptr}]]
    ELSE [ptr |-> ptr, heap |-> heap]

\* ucp_proto_select_init_protocols: [status, heap, proto_init].  env holds what
\* the environment decides: whether each allocation succeeds, the capabilities
\* the protocols report and whether they use private data (offset > 0)
ucp_proto_select_init_protocols(heap, env) ==
    IF ~env.priv_alloc
    THEN [status |-> "UCS_ERR_NO_MEMORY", heap |-> heap,
          proto_init |-> [mask |-> {}, caps |-> env.caps, priv_buf |-> NULL]]
    ELSE LET a    == ucs_malloc(heap)
             mask == init_protocols_mask(env.caps)
         IN  IF mask = {}
             THEN [status |-> "UCS_ERR_NO_ELEM", heap |-> ucs_free(a.heap, a.ptr),
                   proto_init |-> [mask |-> mask, caps |-> env.caps,
                                   priv_buf |-> a.ptr]]
             ELSE IF ~env.priv_used
             THEN [status |-> "UCS_OK", heap |-> ucs_free(a.heap, a.ptr),
                   proto_init |-> [mask |-> mask, caps |-> env.caps,
                                   priv_buf |-> NULL]]
             ELSE IF env.realloc = "fail"
             THEN [status |-> "UCS_ERR_NO_MEMORY", heap |-> ucs_free(a.heap, a.ptr),
                   proto_init |-> [mask |-> mask, caps |-> env.caps,
                                   priv_buf |-> a.ptr]]
             ELSE LET r == ucs_realloc(a.heap, a.ptr, env.realloc = "moved")
                  IN  [status |-> "UCS_OK", heap |-> r.heap,
                       proto_init |-> [mask |-> mask, caps |-> env.caps,
                                       priv_buf |-> r.ptr]]

\* A select_elem as kh_put leaves it: not initialised
NoSelectElem == [thresholds |-> [buf |-> NULL, elems |-> << >>], priv_buf |-> NULL]

\* ucp_proto_select_elem_init_thresh after its sweep (lines 393-420):
\* [status, heap, select_elem]
init_thresh_install(heap, proto_init, thresh_list, thresh_alloc) ==
    IF ~thresh_alloc
    THEN [status |-> "UCS_ERR_NO_MEMORY", heap |-> heap,
          select_elem |-> [thresholds |-> [buf |-> NULL, elems |-> << >>],
                           priv_buf   |-> proto_init.priv_buf]]
    ELSE LET a == ucs_malloc(heap)
         IN  [status |-> "UCS_OK", heap |-> a.heap,
              select_elem |->
                  [thresholds |-> [buf   |-> a.ptr,
                                   elems |-> init_thresh_copy(
                                                 thresh_list, proto_init.priv_buf)],
                   priv_buf   |-> proto_init.priv_buf]]

\* ucp_proto_select_elem_init up to its call of elem_init_thresh (lines
\* 439-449): [status, heap, proto_init]
elem_init_protocols(heap, env) ==
    IF ~env.proto_init_alloc
    THEN [status |-> "UCS_ERR_NO_MEMORY", heap |-> heap,
          proto_init |-> [mask |-> {}, caps |-> env.caps, priv_buf |-> NULL]]
    ELSE ucp_proto_select_init_protocols(heap, env)

\* Faulty variant of elem_init_out without the free of priv_buf after a failed
\* ucp_proto_select_elem_init_thresh.  C7 does not hold of it.
elem_init_out_keep_priv_buf(heap, proto_init, status) == heap

\* ucp_proto_select_elem_init after elem_init_thresh returned status (lines
\* 453-466): the heap after it
elem_init_out(heap, proto_init, status) ==
    IF status # "UCS_OK" THEN ucs_free(heap, proto_init.priv_buf) ELSE heap

\* ucp_proto_select_elem_cleanup: the heap after it
ucp_proto_select_elem_cleanup(heap, select_elem) ==
    ucs_free(ucs_free(heap, select_elem.thresholds.buf), select_elem.priv_buf)

(* ---------------------------- selection cache -------------------------- *)

\* A pointer into the value storage of the hash: the address of the storage
\* (it changes when the hash is resized) and the slot of the key
NoElemPtr == [vals |-> 0, key |-> 0]

ElemPtr(proto_select, key) == [vals |-> proto_select.vals, key |-> key]

\* Faulty variant of ucp_proto_select_cache_reset that leaves the cache as it
\* is.  C6 does not hold of it.
cache_reset_skipped(proto_select) == proto_select

\* ucp_proto_select_cache_reset
ucp_proto_select_cache_reset(proto_select) ==
    [proto_select EXCEPT !.cache = [key |-> UINT64_MAX, value |-> NoElemPtr]]

\* kh_put of a key that is not in the hash: its slot becomes live; a resize
\* moves the value storage and drops the deleted slots
kh_put(proto_select, key, resize) ==
    IF resize
    THEN [proto_select EXCEPT
            !.vals = @ + 1,
            !.hash = [k \in Keys |->
                        IF k = key THEN [state |-> "live", elem |-> NoSelectElem]
                        ELSE IF @[k].state = "live" THEN @[k]
                        ELSE [state |-> "empty", elem |-> NoSelectElem]]]
    ELSE [proto_select EXCEPT !.hash[key].state = "live"]

\* kh_del: the slot is marked deleted, its value stays as it is
kh_del(proto_select, key) ==
    [proto_select EXCEPT !.hash[key].state = "deleted"]

\* Faulty variant of the insertion below that leaves the MRU cache as it is.
\* C14 does not hold of it.
lookup_slow_put_no_reset(proto_select, key, resize) ==
    kh_put(proto_select, key, resize)

\* ucp_proto_select_lookup_slow up to its call of elem_init (lines 495-505)
lookup_slow_put(proto_select, key, resize) ==
    ucp_proto_select_cache_reset(kh_put(proto_select, key, resize))

\* Faulty variant of lookup_slow_out without the kh_del of the slot whose
\* initialisation failed.  C8 does not hold of it.
lookup_slow_out_keep_slot(proto_select, key, select_elem, status) ==
    LET ps == [proto_select EXCEPT !.hash[key].elem = select_elem]
    IN  [proto_select |-> ps,
         value |-> IF status # "UCS_OK" THEN NoElemPtr ELSE ElemPtr(ps, key)]

\* ucp_proto_select_lookup_slow after elem_init left select_elem in the slot
\* and returned status (lines 505-514): [proto_select, value]
lookup_slow_out(proto_select, key, select_elem, status) ==
    LET ps == [proto_select EXCEPT !.hash[key].elem = select_elem]
    IN  IF status # "UCS_OK"
        THEN [proto_select |-> kh_del(ps, key), value |-> NoElemPtr]
        ELSE [proto_select |-> ps, value |-> ElemPtr(ps, key)]

\* ucp_proto_select_init on a zeroed structure
ucp_proto_select_init ==
    ucp_proto_select_cache_reset(
        [hash  |-> [k \in Keys |-> [state |-> "empty", elem |-> NoSelectElem]],
         vals  |-> 0,
         cache |-> [key |-> 0, value |-> NoElemPtr]])

\* ucp_proto_select_cleanup, the kh_foreach_value loop from key k on: the
\* heap after the cleanup of every live select_elem
RECURSIVE select_cleanup_loop(_, _, _)
select_cleanup_loop(proto_select, heap, k) ==
    IF k \notin Keys THEN heap
    ELSE select_cleanup_loop(proto_select,
             IF proto_select.hash[k].state = "live"
             THEN ucp_proto_select_elem_cleanup(heap, proto_select.hash[k].elem)
             ELSE heap,
             k + 1)

\* ucp_proto_select_lookup_fast: the MRU cache alone
ucp_proto_select_lookup_fast(proto_select, key) ==
    IF proto_select.cache.key = key THEN proto_select.cache.value ELSE NoElemPtr

\* Capabilities the protocols report in the sessions of the selection cache
CacheCapsSet ==
    {NoCaps} \cup
    { [ok |-> TRUE, min_length |-> 0,
       ranges |-> << [max_length |-> et[1], perf |-> [c |-> 0, m |-> 1]] >>,
       cfg_thresh |-> et[2]] :
         et \in { <<SIZE_MAX, UCS_MEMUNITS_AUTO>>, <<SIZE_MAX, 1>>, <<1, 1>> } }

\* What the environment decides when lookup_slow collects the capabilities:
\* whether each allocation succeeds, the capabilities reported and whether
\* the protocols use private data.  A decision that is never consulted (an
\* allocation after the one that failed) is fixed.
EnvSet ==
    LET all == [proto_init_alloc : BOOLEAN, priv_alloc : BOOLEAN,
                priv_used : BOOLEAN, realloc : {"fail", "same", "moved"},
                caps : [ProtoIds -> CacheCapsSet]]
        none == [p \in ProtoIds |-> NoCaps]
    IN  { env \in all :
            /\ ~env.proto_init_alloc =>
                    env.priv_alloc /\ env.caps = none
            /\ ~env.priv_alloc => env.caps = none
            /\ env.caps = none =>
                    env.priv_used /\ env.realloc = "same"
            /\ ~env.priv_used => env.realloc = "same" }

(* ------------------------------ the state ------------------------------ *)

VARIABLES
    proto_init,       \* ucp_proto_select_init_protocols_t: [mask, caps, priv_buf]
    pc,               \* position in ucp_proto_select_elem_init_thresh
    msg_length,       \* init_thresh: msg_length
    tmp_thresh_list,  \* init_thresh: tmp_thresh_list
    status,           \* the status init_thresh returned
    best_frame,       \* the running select_best call: [proto_mask, proto_perf, start, end],
                      \* and the iterations of its loop that have run
    asserts_failed,   \* the ucs_assert's of the sweep that have failed so far
    select_elem,      \* *select_elem, the element init_thresh fills
    search,           \* the last threshold search: [msg_length, idx]
    proto_select,     \* ucp_proto_select_t: [hash, vals, cache]
    heap,             \* the priv_buf and thresholds buffers: [live, next, double_free]
    call,             \* the last call of the selection cache and what it returned
    lookups           \* lookup_slow calls that have returned: [ok, failed]

vars == << proto_init, pc, msg_length, tmp_thresh_list, status, best_frame,
           asserts_failed, select_elem, search, proto_select, heap, call, lookups >>

\* select_elem->thresholds, the table
thresholds == select_elem.thresholds.elems

NoFrame == [proto_mask |-> {}, proto_perf |-> [p \in ProtoIds |-> NoPerf],
            start |-> 0, end |-> 0, iterations |-> 0]

NoSearch == [msg_length |-> 0, idx |-> -1]

NoProtoInit == [mask |-> {}, caps |-> [p \in ProtoIds |-> NoCaps], priv_buf |-> NULL]

\* before: the installed select_elems when a lookup_slow in progress began
NoCall == [op |-> "none", key |-> 0, value |-> NoElemPtr, status |-> "UCS_OK",
           before |-> {}]

\* The selection cache after ucp_proto_select_init
CacheInit ==
    /\ proto_select = ucp_proto_select_init
    /\ heap = [live |-> {}, next |-> 1, double_free |-> FALSE]
    /\ call = NoCall
    /\ lookups = [ok |-> 0, failed |-> 0]

\* ucp_proto_select_elem_init_thresh is entered with any capabilities
Init ==
    /\ CacheInit
    /\ \E caps \in [ProtoIds -> CapsSet] :
         proto_init = [mask |-> init_protocols_mask(caps), caps |-> caps,
                       priv_buf |-> NULL]
    /\ pc = IF proto_init.mask = {} THEN "done" ELSE "select_next"
    /\ status = IF proto_init.mask = {} THEN "UCS_ERR_NO_ELEM" ELSE "UCS_INPROGRESS"
    /\ msg_length = 0
    /\ tmp_thresh_list = << >>
    /\ best_frame = NoFrame
    /\ asserts_failed = {}
    /\ select_elem = NoSelectElem
    /\ search = NoSearch

\* init_thresh calls select_next, which narrows the sub-range and enters
\* select_best, or fails with UNSUPPORTED
SelectNext ==
    /\ pc = "select_next"
    /\ LET nx == select_next_narrow(proto_init.mask, proto_init.caps, msg_length)
       IN  /\ asserts_failed' = asserts_failed \cup
                  (IF nx.assert_ok THEN {} ELSE {"msg_length <= max_length"})
           /\ IF nx.status # "UCS_OK"
              THEN /\ pc' = "done"
                   /\ status' = nx.status
                   /\ best_frame' = NoFrame
              ELSE /\ pc' = "select_best"
                   /\ status' = status
                   /\ best_frame' = [proto_mask |-> nx.proto_mask,
                                     proto_perf |-> nx.proto_perf,
                                     start      |-> msg_length,
                                     end        |-> nx.max_length,
                                     iterations |-> 0]
    /\ UNCHANGED << proto_init, msg_length, tmp_thresh_list, select_elem, search >>
    /\ UNCHANGED << proto_select, heap, call, lookups >>

\* One iteration of select_best; after the last one select_next returns
\* max_length, and init_thresh advances msg_length or leaves its loop,
\* allocates select_elem->thresholds and copies the list
SelectBest ==
    /\ pc = "select_best"
    /\ IF best_frame.proto_mask = {}
       THEN /\ asserts_failed' = asserts_failed \cup {"proto_mask != 0"}
            /\ pc' = "done"
            /\ status' = "ABORT"
            /\ UNCHANGED << tmp_thresh_list, best_frame, msg_length, select_elem,
                            heap >>
       ELSE LET it == select_best_iter(best_frame.proto_mask, best_frame.proto_perf,
                                       tmp_thresh_list, best_frame.start,
                                       best_frame.end)
            IN  /\ asserts_failed' = asserts_failed \cup
                       (IF it.assert_ok THEN {} ELSE {"max_length > last->max_length"})
                /\ tmp_thresh_list' = it.list
                /\ IF it.status # "UCS_OK"
                   THEN /\ pc' = "done"
                        /\ status' = it.status
                        /\ best_frame' = NoFrame
                        /\ UNCHANGED << msg_length, select_elem, heap >>
                   ELSE IF it.midpoint < best_frame.end
                   THEN /\ pc' = "select_best"
                        /\ status' = status
                        /\ best_frame' = [best_frame EXCEPT
                                            !.proto_mask = it.proto_mask,
                                            !.start = it.start,
                                            !.iterations = @ + 1]
                        /\ UNCHANGED << msg_length, select_elem, heap >>
                   ELSE IF best_frame.end < SIZE_MAX
                   THEN /\ pc' = "select_next"
                        /\ status' = status
                        /\ best_frame' = NoFrame
                        /\ msg_length' = (best_frame.end + 1) % (SIZE_MAX + 1)
                        /\ UNCHANGED << select_elem, heap >>
                   ELSE \E thresh_alloc \in BOOLEAN :
                          LET fin == init_thresh_install(heap, proto_init, it.list,
                                                         thresh_alloc)
                          IN  /\ pc' = "done"
                              /\ status' = fin.status
                              /\ best_frame' = NoFrame
                              /\ msg_length' = (best_frame.end + 1) % (SIZE_MAX + 1)
                              /\ select_elem' = fin.select_elem
                              /\ heap' = fin.heap
    /\ UNCHANGED << proto_init, search >>
    /\ UNCHANGED << proto_select, call, lookups >>

\* ucp_proto_thresholds_search_slow on the table that was built
Search ==
    /\ pc = "done"
    /\ status = "UCS_OK"
    /\ \E len \in Lengths :
         search' = [msg_length |-> len,
                    idx |-> ucp_proto_thresholds_search_slow(thresholds, len)]
    /\ UNCHANGED << proto_init, pc, msg_length, tmp_thresh_list, status,
                    best_frame, asserts_failed, select_elem >>
    /\ UNCHANGED << proto_select, heap, call, lookups >>

Next == SelectNext \/ SelectBest \/ Search

Spec == Init /\ [][Next]_vars

\* The capabilities of the sessions in which termination is checked: the
\* protocols with a single range
LiveCapsSet == { caps \in CapsSet : Len(caps.ranges) <= 1 }

InitLive ==
    /\ Init
    /\ \A p \in ProtoIds : proto_init.caps[p] \in LiveCapsSet

\* The sweep is a sequential loop: a step that can be taken is taken
SpecLive == InitLive /\ [][Next]_vars /\ WF_vars(SelectNext) /\ WF_vars(SelectBest)

(* ------------------- the selection cache specification ----------------- *)

\* No lookup_slow is in progress
SweepIdle ==
    /\ proto_init = NoProtoInit
    /\ pc = "idle"
    /\ status = "UCS_OK"
    /\ msg_length = 0
    /\ tmp_thresh_list = << >>
    /\ best_frame = NoFrame
    /\ select_elem = NoSelectElem

InitCache ==
    /\ CacheInit
    /\ SweepIdle
    /\ asserts_failed = {}
    /\ search = NoSearch

Cleaned == call.op = "cleanup"

\* The select_elems installed in the hash
Installed(ps) == { <<k, ps.hash[k].elem>> : k \in { k \in Keys : ps.hash[k].state = "live" } }

\* ucp_proto_select_lookup_slow for a key that is not in the hash (it aborts
\* on ucs_assert_always otherwise), up to the sweep of elem_init_thresh; when
\* the protocols cannot be initialised it returns at once
LookupSlow ==
    /\ ~Cleaned
    /\ pc = "idle"
    /\ lookups.ok + lookups.failed < MaxCalls
    /\ \E key \in Keys, resize \in BOOLEAN, env \in EnvSet :
         /\ proto_select.hash[key].state # "live"
         /\ proto_select.vals = 0 => resize
         /\ LET put == lookup_slow_put(proto_select, key, resize)
                ip  == elem_init_protocols(heap, env)
                out == lookup_slow_out(put, key, put.hash[key].elem, ip.status)
            IN  /\ heap' = ip.heap
                /\ IF ip.status # "UCS_OK"
                   THEN /\ proto_select' = out.proto_select
                        /\ call' = [op |-> "lookup_slow", key |-> key,
                                    value |-> out.value, status |-> ip.status,
                                    before |-> {}]
                        /\ lookups' = [lookups EXCEPT !.failed = @ + 1]
                        /\ UNCHANGED << proto_init, pc, status, select_elem >>
                   ELSE /\ proto_select' = put
                        /\ call' = [op |-> "lookup_slow", key |-> key,
                                    value |-> NoElemPtr,
                                    status |-> "UCS_INPROGRESS",
                                    before |-> Installed(proto_select)]
                        /\ proto_init' = ip.proto_init
                        /\ pc' = "select_next"
                        /\ status' = "UCS_INPROGRESS"
                        /\ select_elem' = put.hash[key].elem
                        /\ UNCHANGED lookups
    /\ UNCHANGED << msg_length, tmp_thresh_list, best_frame, asserts_failed, search >>

\* ucp_proto_select_lookup_slow after elem_init_thresh has returned: the rest
\* of elem_init, and the slot is kept or deleted
LookupSlowReturn ==
    /\ pc = "done"
    /\ call.op = "lookup_slow"
    /\ call.status = "UCS_INPROGRESS"
    /\ heap' = elem_init_out(heap, proto_init, status)
    /\ LET out == lookup_slow_out(proto_select, call.key, select_elem, status)
       IN  /\ proto_select' = out.proto_select
           /\ call' = [call EXCEPT !.value = out.value, !.status = status,
                                   !.before = {}]
    /\ lookups' = IF status = "UCS_OK"
                  THEN [lookups EXCEPT !.ok = @ + 1]
                  ELSE [lookups EXCEPT !.failed = @ + 1]
    /\ proto_init' = NoProtoInit
    /\ pc' = "idle"
    /\ status' = "UCS_OK"
    /\ msg_length' = 0
    /\ tmp_thresh_list' = << >>
    /\ best_frame' = NoFrame
    /\ select_elem' = NoSelectElem
    /\ UNCHANGED << asserts_failed, search >>

\* ucp_proto_select_lookup_fast
LookupFast ==
    /\ ~Cleaned
    /\ pc = "idle"
    /\ \E key \in Keys :
         call' = [op |-> "lookup_fast", key |-> key,
                  value |-> ucp_proto_select_lookup_fast(proto_select, key),
                  status |-> "UCS_OK", before |-> {}]
    /\ UNCHANGED << proto_select, heap, lookups >>
    /\ UNCHANGED << proto_init, pc, msg_length, tmp_thresh_list, status,
                    best_frame, asserts_failed, select_elem, search >>

\* The caller stores the select_elem it has just got for a key (from the hash
\* or from lookup_slow) in the MRU cache
CacheStore ==
    /\ ~Cleaned
    /\ pc = "idle"
    /\ \E key \in Keys :
         /\ proto_select.hash[key].state = "live"
         /\ proto_select' = [proto_select EXCEPT
                                !.cache = [key |-> key,
                                           value |-> ElemPtr(proto_select, key)]]
    /\ UNCHANGED << heap, call, lookups >>
    /\ UNCHANGED << proto_init, pc, msg_length, tmp_thresh_list, status,
                    best_frame, asserts_failed, select_elem, search >>

\* ucp_proto_select_cleanup
Cleanup ==
    /\ ~Cleaned
    /\ pc = "idle"
    /\ heap' = select_cleanup_loop(proto_select, heap, 1)
    /\ proto_select' = [proto_select EXCEPT
                           !.hash = [k \in Keys |->
                                       [state |-> "empty", elem |-> NoSelectElem]],
                           !.vals = 0]
    /\ call' = [op |-> "cleanup", key |-> 0, value |-> NoElemPtr,
                status |-> "UCS_OK", before |-> {}]
    /\ UNCHANGED lookups
    /\ UNCHANGED << proto_init, pc, msg_length, tmp_thresh_list, status,
                    best_frame, asserts_failed, select_elem, search >>

NextCache ==
    \/ LookupSlow
    \/ SelectNext
    \/ SelectBest
    \/ LookupSlowReturn
    \/ LookupFast
    \/ CacheStore
    \/ Cleanup

SpecCache == InitCache /\ [][NextCache]_vars

(* ----------------- what the claims say of a capability set -------------- *)

\* The protocol supports length len: its init succeeded and
\* min_length <= len <= max_length of one of its ranges
ValidAt(caps, len) ==
    /\ caps.ok
    /\ caps.min_length <= len
    /\ \E i \in 1..Len(caps.ranges) : len <= caps.ranges[i].max_length

FiniteThresh(caps) == caps.cfg_thresh \notin {UCS_MEMUNITS_AUTO, UCS_MEMUNITS_INF}

\* cfg_thresh disables the protocol at len: INF, or finite and above len
DisabledAt(caps, len) ==
    \/ caps.cfg_thresh = UCS_MEMUNITS_INF
    \/ FiniteThresh(caps) /\ caps.cfg_thresh > len

\* cfg_thresh forces the protocol at len: finite and not above len
ForcedAt(caps, len) == FiniteThresh(caps) /\ caps.cfg_thresh <= len

EnabledAt(len) ==
    { p \in ProtoIds : /\ ValidAt(proto_init.caps[p], len)
                       /\ ~DisabledAt(proto_init.caps[p], len) }

\* Twice the cost c + m*(len + 0.5) of protocol p in its range that holds len
CostAt(p, len) ==
    LET r == proto_init.caps[p].ranges
        i == CHOOSE i \in 1..Len(r) :
                 /\ len <= r[i].max_length
                 /\ \A j \in 1..(i - 1) : len > r[j].max_length
    IN  2 * r[i].perf.c + r[i].perf.m * (2 * len + 1)

\* The cheapest protocol of a non-empty set at len, the lowest id on a tie
CheapestAt(S, len) ==
    CHOOSE p \in S : \A q \in S :
        \/ CostAt(p, len) < CostAt(q, len)
        \/ CostAt(p, len) = CostAt(q, len) /\ p <= q

\* The sweep succeeded and the table was copied into select_elem
TableBuilt == pc = "done" /\ status = "UCS_OK"

\* The protocol the threshold lookup returns for len
SelectedAt(len) ==
    thresholds[ucp_proto_thresholds_search_slow(thresholds, len) + 1].proto_config.proto

\* Lengths at which no protocol is both valid and enabled
Holes == { len \in Lengths : EnabledAt(len) = {} }

(* -------------------------------- claims ------------------------------- *)

\* C1 (as claimed): in every table built by the sweep, the protocol looked up
\* for a length L is the cheapest one at L + 0.5 among the protocols valid and
\* not disabled at L, the lowest id winning a tie.
C1_SelectedIsCheapest ==
    TableBuilt =>
        \A len \in Lengths :
            /\ EnabledAt(len) # {}
            /\ SelectedAt(len) = CheapestAt(EnabledAt(len), len)

\* C1, the case of a late min_length: every cfg_thresh is AUTO, protocol q is
\* valid from its min_length > 0 to SIZE_MAX and strictly cheaper there than
\* protocol p (their cost lines do not cross), p is valid at every length,
\* and the table built selects p at every length
C1_Witness ==
    /\ TableBuilt
    /\ \A p \in ProtoIds : proto_init.caps[p].cfg_thresh = UCS_MEMUNITS_AUTO
    /\ \E p \in ProtoIds, q \in ProtoIds :
         /\ \A len \in Lengths : ValidAt(proto_init.caps[p], len)
         /\ proto_init.caps[q].ok
         /\ proto_init.caps[q].min_length > 0
         /\ \A len \in Lengths :
              len >= proto_init.caps[q].min_length =>
                  /\ ValidAt(proto_init.caps[q], len)
                  /\ CostAt(q, len) < CostAt(p, len)
         /\ Len(proto_init.caps[p].ranges) = 1
         /\ Len(proto_init.caps[q].ranges) = 1
         /\ proto_init.caps[q].ranges[1].perf.c <= proto_init.caps[p].ranges[1].perf.c
         /\ proto_init.caps[q].ranges[1].perf.m <= proto_init.caps[p].ranges[1].perf.m
         /\ \A len \in Lengths : SelectedAt(len) = p

\* C2: every table built is non-empty, strictly increasing in max_msg_length
\* and ends with SIZE_MAX, and the assertion of ucp_proto_thresholds_append
\* (max_length > last->max_length) never fails.
C2_TableIncreasingToSizeMax ==
    /\ "max_length > last->max_length" \notin asserts_failed
    /\ \A i \in 1..(Len(tmp_thresh_list) - 1) :
           tmp_thresh_list[i].max_length < tmp_thresh_list[i + 1].max_length
    /\ TableBuilt =>
           /\ Len(thresholds) >= 1
           /\ \A i \in 1..(Len(thresholds) - 1) :
                  thresholds[i].max_msg_length < thresholds[i + 1].max_msg_length
           /\ thresholds[Len(thresholds)].max_msg_length = SIZE_MAX

\* C2 witness: a table of several entries was built by appends that followed
\* a non-empty list
C2_Witness ==
    /\ TableBuilt
    /\ Len(thresholds) >= 2
    /\ thresholds[1].max_msg_length > 0

\* C3: adjacent entries of the threshold list, and of the table copied from
\* it, carry different protocol ids, also across select_next calls.
C3_AdjacentDistinct ==
    /\ \A i \in 1..(Len(tmp_thresh_list) - 1) :
           tmp_thresh_list[i].proto_id # tmp_thresh_list[i + 1].proto_id
    /\ \A i \in 1..(Len(thresholds) - 1) :
           thresholds[i].proto_config.proto # thresholds[i + 1].proto_config.proto

\* C3 witness: the first select_next call ended its sub-range before SIZE_MAX
\* and a later call appended the same protocol: one entry covers both
C3_Witness ==
    /\ TableBuilt
    /\ Len(thresholds) = 1
    /\ select_next_narrow(proto_init.mask, proto_init.caps, 0).max_length < SIZE_MAX

\* A protocol with a finite cfg_thresh that is valid at every length
ForcedEverywhere(p) ==
    /\ FiniteThresh(proto_init.caps[p])
    /\ \A len \in Lengths : ValidAt(proto_init.caps[p], len)

\* C4 (as claimed): a protocol P with finite cfg_thresh = T, valid at all
\* lengths, is selected for every L >= T and for no L < T, whatever the
\* other protocols are.
C4_Original ==
    TableBuilt =>
        \A p \in ProtoIds : ForcedEverywhere(p) =>
            \A len \in Lengths :
                (SelectedAt(len) = p) <=> (len >= proto_init.caps[p].cfg_thresh)

\* C4 (amended): P is selected for no L < T, and for every L >= T at which no
\* other protocol is valid and forced as well (finite cfg_thresh <= L).
C4_ForcedUnlessOtherForced ==
    TableBuilt =>
        \A p \in ProtoIds : ForcedEverywhere(p) =>
            \A len \in Lengths :
                LET forced == { q \in ProtoIds :
                                  /\ ValidAt(proto_init.caps[q], len)
                                  /\ ForcedAt(proto_init.caps[q], len) }
                IN  /\ len < proto_init.caps[p].cfg_thresh => SelectedAt(len) # p
                    /\ (len >= proto_init.caps[p].cfg_thresh /\ forced = {p})
                           => SelectedAt(len) = p

\* C4 witness: P is forced from T > 0 on and wins there against a cheaper
\* protocol that is valid and not disabled, which wins below T
C4_Witness ==
    /\ TableBuilt
    /\ \E p \in ProtoIds, q \in ProtoIds :
         /\ p # q
         /\ ForcedEverywhere(p)
         /\ proto_init.caps[p].cfg_thresh > 0
         /\ proto_init.caps[q].cfg_thresh = UCS_MEMUNITS_AUTO
         /\ \A len \in Lengths : ValidAt(proto_init.caps[q], len)
         /\ \A len \in Lengths : CostAt(q, len) < CostAt(p, len)
         /\ SelectedAt(SIZE_MAX) = p
         /\ SelectedAt(0) = q

\* C5: a protocol whose cfg_thresh is INF is in no entry of the threshold
\* list or of the table.
C5_InfNeverSelected ==
    /\ \A i \in 1..Len(tmp_thresh_list) :
           proto_init.caps[tmp_thresh_list[i].proto_id].cfg_thresh # UCS_MEMUNITS_INF
    /\ \A i \in 1..Len(thresholds) :
           proto_init.caps[thresholds[i].proto_config.proto].cfg_thresh
               # UCS_MEMUNITS_INF

\* C5 witness: a table was built although a disabled protocol is valid at
\* every length and cheaper than the selected one
C5_Witness ==
    /\ TableBuilt
    /\ \E p \in ProtoIds :
         /\ proto_init.caps[p].cfg_thresh = UCS_MEMUNITS_INF
         /\ \A len \in Lengths :
              /\ ValidAt(proto_init.caps[p], len)
              /\ CostAt(p, len) < CostAt(SelectedAt(len), len)

\* C9 (as claimed): with at least one protocol initialised, the sweep fails
\* with UNSUPPORTED iff some length has no valid enabled protocol, and it
\* fails at the smallest such length.
C9_UnsupportedIffHole ==
    (pc = "done" /\ proto_init.mask # {}) =>
        /\ (status = "UCS_ERR_UNSUPPORTED") <=> (Holes # {})
        /\ status = "UCS_ERR_UNSUPPORTED" =>
               /\ msg_length \in Holes
               /\ \A len \in Holes : msg_length <= len

\* C9, the case of a full threshold list: the sweep ended with another error
\* than UNSUPPORTED, before the smallest length that no protocol supports
C9_Witness ==
    /\ pc = "done"
    /\ proto_init.mask # {}
    /\ status = "UCS_ERR_NO_MEMORY"
    /\ Holes # {}
    /\ \A len \in Holes : msg_length < len

\* Apart from a full threshold list, the sweep fails with UNSUPPORTED exactly
\* when some length has no valid enabled protocol, at the smallest such length
UnsupportedIffHoleUnlessFull ==
    (pc = "done" /\ proto_init.mask # {} /\ status # "UCS_ERR_NO_MEMORY") =>
        /\ (status = "UCS_ERR_UNSUPPORTED") <=> (Holes # {})
        /\ status = "UCS_ERR_UNSUPPORTED" =>
               /\ msg_length \in Holes
               /\ \A len \in Holes : msg_length <= len

\* C10: on every table built, search_slow stops at an entry of the table, the
\* first one whose max_msg_length is not below the length searched.
C10_SearchFindsFirst ==
    (search.idx # -1) =>
        /\ search.idx >= 0
        /\ search.idx < Len(thresholds)
        /\ search.msg_length <= thresholds[search.idx + 1].max_msg_length
        /\ \A j \in 1..search.idx :
               search.msg_length > thresholds[j].max_msg_length

\* C10 witness: a search that skipped entries and stopped at the last one
C10_Witness ==
    /\ search.idx >= 1
    /\ search.idx = Len(thresholds) - 1
    /\ search.msg_length = SIZE_MAX

\* select_best is past its first iteration: the last entry of the list is the
\* (midpoint, best) the previous iteration emitted, with midpoint < end
SelectBestHandoff ==
    /\ pc = "select_best"
    /\ best_frame.proto_mask # {}
    /\ best_frame.start > msg_length

\* C11 (as claimed): when an iteration of select_best emitted (midpoint, best)
\* with midpoint < end, the protocol the next iteration emits costs, at
\* midpoint + 1 + 0.5, no more than the previous best does there.
C11_HandoffNotCostlier ==
    SelectBestHandoff =>
        LET prev == tmp_thresh_list[Len(tmp_thresh_list)].proto_id
            it   == select_best_iter(best_frame.proto_mask, best_frame.proto_perf,
                                     tmp_thresh_list, best_frame.start,
                                     best_frame.end)
        IN  ucs_linear_func_apply(best_frame.proto_perf[it.best], best_frame.start)
                <= ucs_linear_func_apply(best_frame.proto_perf[prev],
                                         best_frame.start)

\* C11, the case of a crossing in (start, start + 0.5]: two protocols valid at
\* every length with one range each and no cfg_thresh; the table built hands
\* over at length 0 to the protocol that is the costlier one at every length
\* from 1 on
C11_Witness ==
    /\ TableBuilt
    /\ Len(thresholds) = 2
    /\ thresholds[1].max_msg_length = 0
    /\ \A p \in ProtoIds :
         /\ proto_init.caps[p].ok
         /\ proto_init.caps[p].min_length = 0
         /\ proto_init.caps[p].cfg_thresh = UCS_MEMUNITS_AUTO
         /\ Len(proto_init.caps[p].ranges) = 1
         /\ proto_init.caps[p].ranges[1].max_length = SIZE_MAX
    /\ \A len \in 1..SIZE_MAX :
         CostAt(thresholds[2].proto_config.proto, len)
             > CostAt(thresholds[1].proto_config.proto, len)

\* C12: the threshold construction terminates.  The assertions
\* proto_mask != 0 and msg_length <= max_length never fail; every iteration of
\* select_best starts with a non-empty mask and is at most the
\* popcount(proto_mask)-th of its call; a select_next call that returns
\* before SIZE_MAX makes the sweep advance msg_length past its sub-range; and
\* the sweep ends, with an error or with a list whose last entry is SIZE_MAX.
C12_SweepTerminates ==
    /\ [](/\ "proto_mask != 0" \notin asserts_failed
          /\ "msg_length <= max_length" \notin asserts_failed
          /\ pc = "select_best" =>
                 /\ best_frame.proto_mask # {}
                 /\ msg_length <= best_frame.end
                 /\ best_frame.iterations <
                        Cardinality(select_next_narrow(proto_init.mask,
                                        proto_init.caps, msg_length).proto_mask)
          /\ (pc = "done" /\ status = "UCS_OK") =>
                 tmp_thresh_list[Len(tmp_thresh_list)].max_length = SIZE_MAX)
    /\ [][(pc = "select_best" /\ pc' = "select_next") =>
              /\ msg_length' = best_frame.end + 1
              /\ msg_length' > msg_length]_vars
    /\ <>(pc = "done")

\* C12 witness: the sweep ended with a table after two select_next calls, the
\* first of which ran select_best for as many iterations as it had protocols
C12_Witness ==
    /\ TableBuilt
    /\ Len(thresholds) = ucp_protocols_count
    /\ LET nx == select_next_narrow(proto_init.mask, proto_init.caps, 0)
       IN  /\ Cardinality(nx.proto_mask) = ucp_protocols_count
           /\ nx.max_length < SIZE_MAX
           /\ thresholds[1].max_msg_length < nx.max_length

\* The protocols that compete at len: the valid and enabled ones, or only the
\* forced ones among them when there are any
CompetingAt(len) ==
    LET forced == { p \in EnabledAt(len) : ForcedAt(proto_init.caps[p], len) }
    IN  IF forced # {} THEN forced ELSE EnabledAt(len)

\* select_next has just handed the sub-range [msg_length, max_length] and its
\* protocols to select_best
SubRangeHandedOver ==
    /\ pc = "select_best"
    /\ best_frame.iterations = 0

\* C13 (as claimed): the protocols select_next hands to select_best for the
\* sub-range [msg_length, max_length] are the ones that compete at every
\* length of the sub-range; a protocol of the mask whose min_length is above
\* msg_length ends the sub-range below its min_length.
C13_SubRangeCompetitors ==
    SubRangeHandedOver =>
        /\ \A len \in msg_length..best_frame.end :
               best_frame.proto_mask = CompetingAt(len)
        /\ \A p \in proto_init.mask :
               proto_init.caps[p].min_length > msg_length =>
                   best_frame.end < proto_init.caps[p].min_length

\* C13, the case of a late min_length: the sub-range handed over runs past the
\* min_length of a protocol that is valid and enabled from there on and is
\* not among the protocols handed over
C13_Witness ==
    /\ SubRangeHandedOver
    /\ \E p \in proto_init.mask :
         /\ proto_init.caps[p].min_length > msg_length
         /\ proto_init.caps[p].min_length <= best_frame.end
         /\ p \in CompetingAt(proto_init.caps[p].min_length)
         /\ p \notin best_frame.proto_mask

\* Apart from the lengths at or above the min_length of a protocol that
\* select_next skipped, the protocols handed over are the ones that compete
SubRangeCompetitorsUnlessSkipped ==
    SubRangeHandedOver =>
        \A len \in msg_length..best_frame.end :
            (\A p \in proto_init.mask :
                 ~(msg_length < proto_init.caps[p].min_length
                       /\ proto_init.caps[p].min_length <= len))
                => best_frame.proto_mask = CompetingAt(len)

\* C15 (as claimed): the temporary threshold list never needs more than its
\* UCP_PROTO_MAX_COUNT entries: the append of every iteration of select_best
\* succeeds, and when every length has a valid enabled protocol the sweep
\* covers all lengths up to SIZE_MAX, so that the selection succeeds unless the
\* allocation of the table itself fails.
C15_ListNeverFull ==
    /\ Len(tmp_thresh_list) <= UCP_PROTO_MAX_COUNT
    /\ (pc = "select_best" /\ best_frame.proto_mask # {}) =>
           select_best_iter(best_frame.proto_mask, best_frame.proto_perf,
                            tmp_thresh_list, best_frame.start,
                            best_frame.end).status = "UCS_OK"
    /\ (pc = "done" /\ proto_init.mask # {} /\ Holes = {}) =>
           /\ Len(tmp_thresh_list) >= 1
           /\ tmp_thresh_list[Len(tmp_thresh_list)].max_length = SIZE_MAX

\* C15, the case of a full list: every length has a valid enabled protocol,
\* and the sweep ended with the error of the append that found the list full,
\* before it reached SIZE_MAX
C15_Witness ==
    /\ pc = "done"
    /\ Holes = {}
    /\ status = "UCS_ERR_NO_MEMORY"
    /\ Len(tmp_thresh_list) = UCP_PROTO_MAX_COUNT
    /\ tmp_thresh_list[Len(tmp_thresh_list)].max_length < SIZE_MAX
    /\ thresholds = << >>

(* ------------------------ claims: selection cache ---------------------- *)

LiveKeys(ps) == { k \in Keys : ps.hash[k].state = "live" }

\* The buffers the installed select_elems own
OwnedBuffers(ps) ==
    UNION { {ps.hash[k].elem.thresholds.buf, ps.hash[k].elem.priv_buf} :
            k \in LiveKeys(ps) } \ {NULL}

\* Until the cleanup destroys the hash, the MRU cache holds nothing or the
\* present address of the live slot of its key
CacheCurrent ==
    (~Cleaned /\ proto_select.cache.key \in Keys) =>
        /\ proto_select.hash[proto_select.cache.key].state = "live"
        /\ proto_select.cache.value =
               ElemPtr(proto_select, proto_select.cache.key)

\* C6: lookup_fast never returns a stale pointer: what it returns is nil or
\* the present address of the live slot of the key asked for; every
\* lookup_slow leaves the MRU cache reset, and lookup_fast on a reset cache
\* returns nil.
C6_LookupFastNeverStale ==
    /\ [](/\ CacheCurrent
          /\ (call.op = "lookup_fast" /\ call.value # NoElemPtr) =>
                 /\ proto_select.hash[call.key].state = "live"
                 /\ call.value = ElemPtr(proto_select, call.key))
    /\ [][/\ lookups' # lookups =>
                 proto_select'.cache = [key |-> UINT64_MAX, value |-> NoElemPtr]
          /\ (call'.op = "lookup_fast" /\ proto_select.cache.key = UINT64_MAX) =>
                 call'.value = NoElemPtr]_vars

\* C6 witness: a lookup_fast hit after the hash was resized by a later
\* lookup_slow and the caller stored the entry again
C6_Witness ==
    /\ call.op = "lookup_fast"
    /\ call.value # NoElemPtr
    /\ proto_select.vals >= 2
    /\ lookups.ok >= 2

\* C7: every priv_buf and thresholds buffer is freed exactly once: no buffer
\* is freed twice, and whenever no lookup_slow is in progress the buffers
\* still allocated are exactly those of the installed select_elems (none of a
\* failed lookup_slow, none at all after cleanup).
C7_BuffersFreedOnce ==
    /\ ~heap.double_free
    /\ pc = "idle" => heap.live = OwnedBuffers(proto_select)
    /\ Cleaned => heap.live = {}

\* C7 witness: cleanup ran after a lookup_slow that installed both buffers
\* and one that failed after allocating its priv_buf
C7_Witness ==
    /\ Cleaned
    /\ lookups.ok >= 1
    /\ lookups.failed >= 1
    /\ heap.next >= 4

\* C8: a lookup_slow whose element initialisation fails returns nil, leaves
\* the key out of the hash, and leaves the set of keys of the hash and the
\* thresholds and priv_buf of every installed select_elem as they were before
\* the call.
C8_FailedLookupLeavesHash ==
    [][lookups'.failed # lookups.failed =>
          /\ call'.value = NoElemPtr
          /\ call'.key \notin LiveKeys(proto_select')
          /\ Installed(proto_select') =
                 (IF call.status = "UCS_INPROGRESS" THEN call.before
                  ELSE Installed(proto_select))
          /\ OwnedBuffers(proto_select') \subseteq heap'.live]_vars

\* C8 witness: a lookup_slow has just failed in its sweep while another key
\* is installed
C8_Witness ==
    /\ call.op = "lookup_slow"
    /\ call.value = NoElemPtr
    /\ call.status = "UCS_ERR_UNSUPPORTED"
    /\ proto_select.hash[call.key].state = "deleted"
    /\ LiveKeys(proto_select) # {}

\* The MRU cache is in the state ucp_proto_select_cache_reset leaves
CacheIsReset(ps) == ps.cache = [key |-> UINT64_MAX, value |-> NoElemPtr]

\* C14: the MRU cache is reset after init; while a lookup_slow populates the
\* slot of the key it has inserted, and when it returns, with the slot kept or
\* deleted, the cache is reset; a reset cache makes lookup_fast return nil for
\* every key; and only the caller's store of an installed entry ends the
\* reset state.
C14_CacheResetByLookupSlow ==
    /\ [](/\ call.op = "none" => CacheIsReset(proto_select)
          /\ call.status = "UCS_INPROGRESS" =>
                 /\ proto_select.hash[call.key].state = "live"
                 /\ CacheIsReset(proto_select)
          /\ CacheIsReset(proto_select) =>
                 \A key \in Keys :
                     ucp_proto_select_lookup_fast(proto_select, key) = NoElemPtr)
    /\ [][/\ (call'.op = "lookup_slow" /\ call' # call) =>
                 CacheIsReset(proto_select')
          /\ (CacheIsReset(proto_select) /\ ~CacheIsReset(proto_select')) =>
                 /\ pc = "idle"
                 /\ UNCHANGED << call, lookups, heap >>
                 /\ proto_select'.hash = proto_select.hash
                 /\ proto_select'.cache.key \in LiveKeys(proto_select)
          /\ (call'.op = "lookup_fast" /\ call' # call
                  /\ CacheIsReset(proto_select)) =>
                 call'.value = NoElemPtr]_vars

\* C14 witness: after a lookup_slow that failed and deleted its slot,
\* lookup_fast returned nil for a key that is installed in the hash
C14_Witness ==
    /\ call.op = "lookup_fast"
    /\ call.key \in LiveKeys(proto_select)
    /\ call.value = NoElemPtr
    /\ CacheIsReset(proto_select)
    /\ lookups.failed >= 1
    /\ \E k \in Keys : proto_select.hash[k].state = "deleted"

====
